---------------------------- MODULE Spec2Model ----------------------------
(***************************************************************************)
(* A model of utils.py of RL-Bandits: the replay buffer, the frame-skip    *)
(* wrapper, the Atari environment wrapper, the trajectory dataset, the     *)
(* observation preprocessor (at the level of tensor shapes) and the        *)
(* validation loop.  Each component has its own specification; the         *)
(* variables of the other components stay at their idle values.            *)
(***************************************************************************)
EXTENDS Integers, Sequences, FiniteSets, TLC

VARIABLES
    \* ReplayBuffer
    capacity,       \* the size given to ReplayBuffer.__init__ (deque maxlen)
    memory,         \* self.memory, oldest entry first
    pushed,         \* history: every transition pushed so far, in order
    lastOp,         \* the buffer operation that ran last
    sampleArg,      \* bsz of the last sample call
    samplePos,      \* history: the positions random.sample selected
    sampleOut,      \* what the last sample call produced
    lenOut,         \* what the last len() call returned
    \* SkipFrameWrapper
    skip,           \* self.skip
    sfPc,           \* where step() is: "idle", "loop", "ret", "returned"
    sfAction,       \* the action given to step()
    total_reward,   \* step()'s local total_reward
    sfDone,         \* step()'s local done
    sfObs,          \* step()'s local obs
    sfLog,          \* history: the inner env.step calls of this step() call
    sfRet,          \* what step() returned
    \* TrajectorySamples
    dsArgs,         \* the five keyword arguments of the constructor
    dsState,        \* "new", "ok" (constructed) or "failed" (assertion failed)
    dsOp,           \* the dataset operation that ran last
    dsIndex,        \* the index of the last __getitem__ call
    dsOut,          \* what the last __len__ or __getitem__ call returned
    \* AtariGameEnv
    agOp,           \* "init", "reset" or "step"
    agArg,          \* the seed or the action of the last call
    agInner,        \* what the wrapped environment returned to the last call
    agOut,          \* what the last call returned
    \* preprocess_observation
    ppObs,          \* the frame given
    ppMode,         \* the mode given
    ppNewSize,      \* the new_size given
    ppCalled,       \* whether the call has been made
    ppOut,          \* what it returned
    \* validate
    vArgs,          \* the arguments: render, nepisodes, mode, and the environment args.env names
    vPc,            \* where validate is: "start", "for", "while", "done"
    nepisodes,      \* the local nepisodes (1 when rendering)
    i,              \* the episode index of the for loop
    step,           \* the local step
    ep_total_reward,\* the local ep_total_reward
    done,           \* the local done
    observation,    \* the local observation
    prev_state,     \* the local prev_state
    steps_alive,    \* the list steps_alive
    reward_arr,     \* the list reward_arr
    env,            \* the environment of the episode: its seed, the steps made on
                    \* it, the rewards it paid, whether it reported done, its last frame
    episodes,       \* history: what each finished episode's environment saw
    calls           \* history: the number of get_action calls, the arguments of
                    \* the last one and the state it returned

bufVars == <<capacity, memory, pushed, lastOp, sampleArg, samplePos, sampleOut, lenOut>>
skipVars == <<skip, sfPc, sfAction, total_reward, sfDone, sfObs, sfLog, sfRet>>
dsVars == <<dsArgs, dsState, dsOp, dsIndex, dsOut>>
agVars == <<agOp, agArg, agInner, agOut>>
ppVars == <<ppObs, ppMode, ppNewSize, ppCalled, ppOut>>
valVars == <<vArgs, vPc, nepisodes, i, step, ep_total_reward, done, observation,
             prev_state, steps_alive, reward_arr, env, episodes, calls>>

vars == <<bufVars, skipVars, dsVars, agVars, ppVars, valVars>>

\* what an operation of one component leaves alone: the other components
BufferOnly == UNCHANGED <<skipVars, dsVars, agVars, ppVars, valVars>>
SkipOnly == UNCHANGED <<bufVars, dsVars, agVars, ppVars, valVars>>
DatasetOnly == UNCHANGED <<bufVars, skipVars, agVars, ppVars, valVars>>
AtariOnly == UNCHANGED <<bufVars, skipVars, dsVars, ppVars, valVars>>
PreprocessOnly == UNCHANGED <<bufVars, skipVars, dsVars, agVars, valVars>>
ValidateOnly == UNCHANGED <<bufVars, skipVars, dsVars, agVars, ppVars>>

-----------------------------------------------------------------------------
(* Bounds of the exploration *)

MaxCapacity == 2
MaxPushes == 4
MaxSkip == 4
MaxLen == 2
MaxDim == 3
MaxEpisodes == 2
MaxEpisodeLen == 3

(* Constants of the program *)

SEED == 1122
StepCap == 50000

-----------------------------------------------------------------------------
(* Helpers *)

Min(a, b) == IF a < b THEN a ELSE b

RECURSIVE SumSeq(_)
SumSeq(s) == IF s = <<>> THEN 0 ELSE Head(s) + SumSeq(Tail(s))

\* the last n elements of s, in order
LastN(s, n) == SubSeq(s, Len(s) - n + 1, Len(s))

-----------------------------------------------------------------------------
(* ReplayBuffer *)

\* Transition = namedtuple('Transition', (state, action, next_state, reward, done))
Transition(s, a, s2, r, d) ==
    [state |-> s, action |-> a, next_state |-> s2, reward |-> r, done |-> d]

\* the transitions a caller pushes: value objects, so the same value can be
\* pushed more than once
TransitionInputs ==
    { Transition(0, 0, 1, 0, FALSE),
      Transition(1, 1, 2, 1, FALSE),
      Transition(2, 0, 3, 1, TRUE) }

\* deque.append on a deque built with maxlen: the item goes to the right end
\* and, when that makes the deque longer than maxlen, the leftmost item is
\* dropped (with maxlen = 0 the item itself)
DequeAppendDropNewest(q, maxlen, x) ==
    IF Len(q) >= maxlen THEN q ELSE Append(q, x)

DequeAppend(q, maxlen, x) ==
    LET a == Append(q, x)
    IN  IF Len(a) > maxlen THEN Tail(a) ELSE a

\* random.sample(population, k): ValueError unless 0 <= k <= len(population);
\* otherwise k selections at pairwise distinct positions, in selection order
SamplePositionsWithReplacement(n, k) == [1..k -> 1..n]

SamplePositions(n, k) ==
    { f \in [1..k -> 1..n] : \A p, q \in 1..k : p # q => f[p] # f[q] }

NoSample == [ok |-> TRUE, val |-> <<>>]

BufferInit ==
    /\ capacity \in 0..MaxCapacity
    /\ memory = <<>>
    /\ pushed = <<>>
    /\ lastOp = "init"
    /\ sampleArg = 0
    /\ samplePos = <<>>
    /\ sampleOut = NoSample
    /\ lenOut = 0

Push ==
    /\ Len(pushed) < MaxPushes
    /\ \E t \in TransitionInputs :
          /\ memory' = DequeAppend(memory, capacity,
                          Transition(t.state, t.action, t.next_state, t.reward, t.done))
          /\ pushed' = Append(pushed, t)
    /\ lastOp' = "push"
    /\ UNCHANGED <<capacity, sampleArg, samplePos, sampleOut, lenOut>>
    /\ BufferOnly

SampleClamped ==
    /\ \E bsz \in (-1)..(MaxCapacity + 1) :
          /\ sampleArg' = bsz
          /\ IF bsz < 0
             THEN /\ samplePos' = <<>>
                  /\ sampleOut' = [ok |-> FALSE, val |-> <<>>]
             ELSE \E f \in SamplePositions(Len(memory), Min(bsz, Len(memory))) :
                     /\ samplePos' = f
                     /\ sampleOut' = [ok |-> TRUE,
                                      val |-> [p \in 1..Min(bsz, Len(memory)) |-> memory[f[p]]]]
    /\ lastOp' = "sample"
    /\ UNCHANGED <<capacity, memory, pushed, lenOut>>
    /\ BufferOnly

Sample ==
    /\ \E bsz \in (-1)..(MaxCapacity + 1) :
          /\ sampleArg' = bsz
          /\ IF bsz < 0 \/ bsz > Len(memory)
             THEN /\ samplePos' = <<>>
                  /\ sampleOut' = [ok |-> FALSE, val |-> <<>>]
             ELSE \E f \in SamplePositions(Len(memory), bsz) :
                     /\ samplePos' = f
                     /\ sampleOut' = [ok |-> TRUE, val |-> [p \in 1..bsz |-> memory[f[p]]]]
    /\ lastOp' = "sample"
    /\ UNCHANGED <<capacity, memory, pushed, lenOut>>
    /\ BufferOnly

BufferLen ==
    /\ lenOut' = Len(memory)
    /\ lastOp' = "len"
    /\ UNCHANGED <<capacity, memory, pushed, sampleArg, samplePos, sampleOut>>
    /\ BufferOnly

BufferNext == Push \/ Sample \/ BufferLen

-----------------------------------------------------------------------------
(* SkipFrameWrapper *)

\* what the wrapped environment hands back from one step
Rewards == {0, 1}
Observations == {"f1", "f2"}
Actions == {0, 1}

EnvStepOutputs == [obs : Observations, reward : Rewards, done : BOOLEAN]

Unbound == "unbound"

SkipInit ==
    /\ skip \in 1..MaxSkip
    /\ sfPc = "idle"
    /\ sfAction = 0
    /\ total_reward = 0
    /\ sfDone = FALSE
    /\ sfObs = Unbound
    /\ sfLog = <<>>
    /\ sfRet = <<>>

\* step(action), up to the for loop: total_reward = 0.0; done = False
SkipStepCall ==
    /\ sfPc \in {"idle", "returned"}
    /\ \E action \in Actions : sfAction' = action
    /\ total_reward' = 0
    /\ sfDone' = FALSE
    /\ sfObs' = Unbound
    /\ sfLog' = <<>>
    /\ sfPc' = "loop"
    /\ UNCHANGED <<skip, sfRet>>
    /\ SkipOnly

\* after an iteration of `for _ in range(self.skip)`: the loop goes on unless
\* the iteration hit `if done: break` or the range is used up
LoopGoesOnIgnoringDone(made, n, d) == made < n

LoopGoesOn(made, n, d) == ~d /\ made < n

\* one iteration of the for loop: env.step(action), the three assignments
\* and the break
SkipInnerStep ==
    /\ sfPc = "loop"
    /\ \E out \in EnvStepOutputs :
          /\ sfLog' = Append(sfLog, [action |-> sfAction, obs |-> out.obs,
                                     reward |-> out.reward, done |-> out.done])
          /\ total_reward' = total_reward + out.reward
          /\ sfDone' = out.done
          /\ sfObs' = out.obs
          /\ sfPc' = IF LoopGoesOn(Len(sfLog) + 1, skip, out.done) THEN "loop" ELSE "ret"
    /\ UNCHANGED <<skip, sfAction, sfRet>>
    /\ SkipOnly

\* return obs, total_reward, done
SkipReturn ==
    /\ sfPc = "ret"
    /\ sfRet' = <<sfObs, total_reward, sfDone>>
    /\ sfPc' = "returned"
    /\ UNCHANGED <<skip, sfAction, total_reward, sfDone, sfObs, sfLog>>
    /\ SkipOnly

SkipNext == SkipStepCall \/ SkipInnerStep \/ SkipReturn

-----------------------------------------------------------------------------
(* TrajectorySamples *)

DatasetKeys == <<"old_probs", "observations_arr", "advantages", "vtarget_arr", "actions_arr">>

\* a sequence of n values, each one told apart by its array and position
ArrayOf(key, n) == [p \in 1..n |-> <<key, p>>]

DatasetInit ==
    /\ \E l1, l2, l3, l4, l5 \in 0..MaxLen :
          dsArgs = [old_probs |-> ArrayOf("old_probs", l1),
                    observations_arr |-> ArrayOf("observations_arr", l2),
                    advantages |-> ArrayOf("advantages", l3),
                    vtarget_arr |-> ArrayOf("vtarget_arr", l4),
                    actions_arr |-> ArrayOf("actions_arr", l5)]
    /\ dsState = "new"
    /\ dsOp = "none"
    /\ dsIndex = 0
    /\ dsOut = [ok |-> TRUE, val |-> <<>>]

\* assert len(a) == len(b) == len(c) == len(d) == len(e): a chained
\* comparison, true when every neighbouring pair is equal
LengthsAgreeFirstFour(a, b, c, d, e) ==
    /\ Len(a) = Len(b)
    /\ Len(b) = Len(c)
    /\ Len(c) = Len(d)

LengthsAgree(a, b, c, d, e) ==
    /\ Len(a) = Len(b)
    /\ Len(b) = Len(c)
    /\ Len(c) = Len(d)
    /\ Len(d) = Len(e)

\* __init__
DatasetConstruct ==
    /\ dsState = "new"
    /\ dsState' = IF LengthsAgree(dsArgs.old_probs, dsArgs.observations_arr,
                                  dsArgs.advantages, dsArgs.vtarget_arr, dsArgs.actions_arr)
                  THEN "ok" ELSE "failed"
    /\ dsOp' = "init"
    /\ UNCHANGED <<dsArgs, dsIndex, dsOut>>
    /\ DatasetOnly

\* __len__
DatasetLen ==
    /\ dsState = "ok"
    /\ dsOut' = [ok |-> TRUE, val |-> <<Len(dsArgs.old_probs)>>]
    /\ dsOp' = "len"
    /\ UNCHANGED <<dsArgs, dsState, dsIndex>>
    /\ DatasetOnly

\* seq[index] for 0 <= index < len(seq), index counted from 0
At(seq, index) == seq[index + 1]

\* __getitem__: the five values in the order of the return statement; an
\* index past the end of one of the sequences raises IndexError
GetItem(index) ==
    <<At(dsArgs.old_probs, index), At(dsArgs.observations_arr, index),
      At(dsArgs.advantages, index), At(dsArgs.vtarget_arr, index),
      At(dsArgs.actions_arr, index)>>

DatasetGetItem ==
    /\ dsState = "ok"
    /\ \E index \in 0..MaxLen :
          /\ dsIndex' = index
          /\ dsOut' = IF \A k \in DOMAIN dsArgs : index < Len(dsArgs[k])
                      THEN [ok |-> TRUE, val |-> GetItem(index)]
                      ELSE [ok |-> FALSE, val |-> <<>>]
    /\ dsOp' = "getitem"
    /\ UNCHANGED <<dsArgs, dsState>>
    /\ DatasetOnly

DatasetNext == DatasetConstruct \/ DatasetLen \/ DatasetGetItem

-----------------------------------------------------------------------------
(* AtariGameEnv *)

\* FrameStack hands out a LazyFrames view of the stacked frames
LazyFrames(frames) == [lazy |-> TRUE, frames |-> frames]

\* torch.tensor(x): the materialized tensor of x
TorchTensor(x) == [lazy |-> FALSE, tensor |-> x]

FrameStacks == {<<"f1", "f2">>, <<"f2", "f3">>, <<"f3", "f4">>}
Infos == {"info1", "info2"}
Seeds == {0, 1, 2}

\* what the wrapped environment returns: reset gives (observation, info),
\* step gives (observation, reward, terminated, truncated, info)
InnerResetOutputs == { <<LazyFrames(f), info>> : f \in FrameStacks, info \in Infos }

InnerStepOutputs ==
    { <<LazyFrames(f), r, d, t, info>> :
          f \in FrameStacks, r \in Rewards, d \in BOOLEAN, t \in BOOLEAN, info \in Infos }

\* __preprocess_output: element 0 becomes torch.tensor(env_output[0]._frames),
\* the tuple is otherwise rebuilt as it was
PreprocessOutputObsOnly(env_output) == <<TorchTensor(env_output[1].frames)>>

PreprocessOutput(env_output) ==
    [env_output EXCEPT ![1] = TorchTensor(env_output[1].frames)]

AtariInit ==
    /\ agOp = "init"
    /\ agArg = 0
    /\ agInner = <<>>
    /\ agOut = <<>>

AtariReset ==
    /\ \E seed \in Seeds, env_output \in InnerResetOutputs :
          /\ agArg' = seed
          /\ agInner' = env_output
          /\ agOut' = PreprocessOutput(env_output)
    /\ agOp' = "reset"
    /\ AtariOnly

AtariStep ==
    /\ agOp # "init"
    /\ \E action \in Actions, env_output \in InnerStepOutputs :
          /\ agArg' = action
          /\ agInner' = env_output
          /\ agOut' = PreprocessOutput(env_output)
    /\ agOp' = "step"
    /\ AtariOnly

AtariNext == AtariReset \/ AtariStep

-----------------------------------------------------------------------------
(* preprocess_observation, on the shapes of the tensors *)

\* tensor.permute(dims): dims counted from 0
Permute(shape, dims) == [k \in 1..Len(dims) |-> shape[dims[k] + 1]]

\* tensor.unsqueeze(0)
Unsqueeze0(shape) == <<1>> \o shape

\* tensor.squeeze(): every dimension of size 1 is removed
NotOne(d) == d # 1
Squeeze(shape) == SelectSeq(shape, NotOne)

\* T.Grayscale(): the channel dimension, third from the end, becomes 1
Grayscale(shape) == [shape EXCEPT ![Len(shape) - 2] = 1]

\* T.Resize(new_size): the last two dimensions become new_size
Resize(shape, new_size) ==
    [shape EXCEPT ![Len(shape) - 1] = new_size[1], ![Len(shape)] = new_size[2]]

\* a frame: a height x width x 3 array
Frame(height, width, src) == [shape |-> <<height, width, 3>>, src |-> src]

PreprocessObservation(obs, mode, new_size) ==
    IF mode = "simple"
    THEN [shape |-> Permute(obs.shape, <<2, 0, 1>>), src |-> obs.src, mode |-> mode]
    ELSE LET image_tensor == Unsqueeze0(Permute(obs.shape, <<2, 0, 1>>))
             resized_image_tensor == Squeeze(Resize(Grayscale(image_tensor), new_size))
         IN  [shape |-> Unsqueeze0(resized_image_tensor), src |-> obs.src, mode |-> mode]

Modes == {"simple", "resize"}

NoTensor == [shape |-> <<>>, src |-> <<>>, mode |-> "none"]

PreprocessInit ==
    /\ \E h, w \in 1..MaxDim : ppObs = Frame(h, w, <<"frame">>)
    /\ ppMode \in Modes
    /\ ppNewSize \in (1..MaxDim) \X (1..MaxDim)
    /\ ppCalled = FALSE
    /\ ppOut = NoTensor

PreprocessCall ==
    /\ ~ppCalled
    /\ ppOut' = PreprocessObservation(ppObs, ppMode, ppNewSize)
    /\ ppCalled' = TRUE
    /\ UNCHANGED <<ppObs, ppMode, ppNewSize>>
    /\ PreprocessOnly

PreprocessNext == PreprocessCall

-----------------------------------------------------------------------------
(* validate *)

\* the two kinds of environment args.env can name: one whose episodes end
\* within MaxEpisodeLen steps, one that never reports done
EnvKinds == {"episodic", "endless"}

\* what env.step can hand back after t steps have been made
EnvStepOutcomes(kind, t) ==
    IF kind = "endless"
    THEN { [reward |-> 1, done |-> FALSE] }
    ELSE IF t + 1 < MaxEpisodeLen
         THEN [reward : Rewards, done : BOOLEAN]
         ELSE [reward : Rewards, done : {TRUE}]

\* the frame an environment seeded with seed shows after t steps
EnvFrame(seed, t) == Frame(210, 160, <<seed, t>>)

NoEnv == [seed |-> 0, t |-> 0, paid |-> 0, done |-> FALSE, firstDone |-> 0,
          obs |-> EnvFrame(0, 0)]

\* env.reset(seed=seed) on a fresh environment
EnvReset(seed) == [seed |-> seed, t |-> 0, paid |-> 0, done |-> FALSE, firstDone |-> 0,
                   obs |-> EnvFrame(seed, 0)]

\* env.step(action) with outcome out
EnvStep(e, out) ==
    [seed |-> e.seed, t |-> e.t + 1, paid |-> e.paid + out.reward, done |-> out.done,
     firstDone |-> IF e.firstDone = 0 /\ out.done THEN e.t + 1 ELSE e.firstDone,
     obs |-> EnvFrame(e.seed, e.t + 1)]

\* the recurrent state: None, or the state the model's n-th call returned
NoneState == [none |-> TRUE, id |-> 0]
ModelState(n) == [none |-> FALSE, id |-> n]

\* preprocess_observation(obs, mode=mode).unsqueeze(0).unsqueeze(0)
Observe(obs, mode) ==
    LET t == PreprocessObservation(obs, mode, <<84, 84>>)
    IN  [t EXCEPT !.shape = Unsqueeze0(Unsqueeze0(t.shape))]

\* if render: nepisodes = 1
NumEpisodesIgnoringRender(render, n) == n

NumEpisodes(render, n) == IF render THEN 1 ELSE n

\* seed=SEED+i
EpisodeSeedFixed(episode) == SEED

EpisodeSeed(episode) == SEED + episode

\* while not done and step < 50000
WhileGuardOffByOne(d, n) == ~d /\ n <= StepCap

WhileGuard(d, n) == ~d /\ n < StepCap

ValidateInit ==
    /\ vArgs \in [render : BOOLEAN, nepisodes : 0..MaxEpisodes, mode : Modes, env : EnvKinds]
    /\ vPc = "start"
    /\ nepisodes = vArgs.nepisodes
    /\ i = 0
    /\ step = 0
    /\ ep_total_reward = 0
    /\ done = FALSE
    /\ observation = NoTensor
    /\ prev_state = NoneState
    /\ steps_alive = <<>>
    /\ reward_arr = <<>>
    /\ env = NoEnv
    /\ episodes = <<>>
    /\ calls = [n |-> 0, obs |-> NoTensor, state |-> NoneState, ret |-> NoneState]

\* up to the for loop: model.eval(), the render override, the two lists
ValidateBegin ==
    /\ vPc = "start"
    /\ nepisodes' = NumEpisodes(vArgs.render, nepisodes)
    /\ steps_alive' = <<>>
    /\ reward_arr' = <<>>
    /\ i' = 0
    /\ vPc' = "for"
    /\ UNCHANGED <<vArgs, step, ep_total_reward, done, observation, prev_state,
                   env, episodes, calls>>
    /\ ValidateOnly

\* the head of an iteration of `for i in range(nepisodes)`: gym.make, reset,
\* the first observation, and the locals of the episode
EpisodeStart ==
    /\ vPc = "for"
    /\ i < nepisodes
    /\ env' = EnvReset(EpisodeSeed(i))
    /\ observation' = Observe(env'.obs, vArgs.mode)
    /\ prev_state' = NoneState
    /\ step' = 0
    /\ ep_total_reward' = 0
    /\ done' = FALSE
    /\ vPc' = "while"
    /\ UNCHANGED <<vArgs, nepisodes, i, steps_alive, reward_arr, episodes, calls>>
    /\ ValidateOnly

\* one iteration of the while loop
LoopBody ==
    /\ vPc = "while"
    /\ WhileGuard(done, step)
    /\ calls' = [n |-> calls.n + 1, obs |-> observation, state |-> prev_state,
                 ret |-> ModelState(calls.n + 1)]
    /\ prev_state' = calls'.ret
    /\ \E action \in Actions, out \in EnvStepOutcomes(vArgs.env, env.t) :
          /\ env' = EnvStep(env, out)
          /\ ep_total_reward' = ep_total_reward + out.reward
          /\ done' = out.done
    /\ observation' = Observe(env'.obs, vArgs.mode)
    /\ step' = step + 1
    /\ UNCHANGED <<vArgs, vPc, nepisodes, i, steps_alive, reward_arr, episodes>>
    /\ ValidateOnly

\* the while loop is left: the two appends, and on to the next episode
EpisodeEnd ==
    /\ vPc = "while"
    /\ ~WhileGuard(done, step)
    /\ steps_alive' = Append(steps_alive, step)
    /\ reward_arr' = Append(reward_arr, ep_total_reward)
    /\ episodes' = Append(episodes, [seed |-> env.seed, steps |-> env.t, paid |-> env.paid,
                                     done |-> env.done, firstDone |-> env.firstDone])
    /\ i' = i + 1
    /\ vPc' = "for"
    /\ UNCHANGED <<vArgs, nepisodes, step, ep_total_reward, done, observation,
                   prev_state, env, calls>>
    /\ ValidateOnly

\* the for loop is used up: the statistics are logged and validate returns
ValidateFinish ==
    /\ vPc = "for"
    /\ i >= nepisodes
    /\ vPc' = "done"
    /\ UNCHANGED <<vArgs, nepisodes, i, step, ep_total_reward, done, observation,
                   prev_state, steps_alive, reward_arr, env, episodes, calls>>
    /\ ValidateOnly

ValidateNext == ValidateBegin \/ EpisodeStart \/ LoopBody \/ EpisodeEnd \/ ValidateFinish

-----------------------------------------------------------------------------
(* The specifications: one component runs, the others stay idle *)

BufferIdle ==
    /\ capacity = 0 /\ memory = <<>> /\ pushed = <<>> /\ lastOp = "init"
    /\ sampleArg = 0 /\ samplePos = <<>> /\ sampleOut = NoSample /\ lenOut = 0

SkipIdle ==
    /\ skip = 1 /\ sfPc = "idle" /\ sfAction = 0 /\ total_reward = 0
    /\ sfDone = FALSE /\ sfObs = Unbound /\ sfLog = <<>> /\ sfRet = <<>>

DatasetIdle ==
    /\ dsArgs = [old_probs |-> <<>>, observations_arr |-> <<>>, advantages |-> <<>>,
                 vtarget_arr |-> <<>>, actions_arr |-> <<>>]
    /\ dsState = "new" /\ dsOp = "none" /\ dsIndex = 0
    /\ dsOut = [ok |-> TRUE, val |-> <<>>]

AtariIdle == AtariInit

PreprocessIdle ==
    /\ ppObs = Frame(1, 1, <<"frame">>) /\ ppMode = "simple" /\ ppNewSize = <<1, 1>>
    /\ ppCalled = FALSE /\ ppOut = NoTensor

ValidateIdle ==
    /\ vArgs = [render |-> FALSE, nepisodes |-> 0, mode |-> "simple", env |-> "episodic"]
    /\ vPc = "start" /\ nepisodes = 0 /\ i = 0 /\ step = 0 /\ ep_total_reward = 0
    /\ done = FALSE /\ observation = NoTensor /\ prev_state = NoneState
    /\ steps_alive = <<>> /\ reward_arr = <<>> /\ env = NoEnv /\ episodes = <<>>
    /\ calls = [n |-> 0, obs |-> NoTensor, state |-> NoneState, ret |-> NoneState]

BufferSpecInit ==
    /\ BufferInit /\ SkipIdle /\ DatasetIdle /\ AtariIdle /\ PreprocessIdle /\ ValidateIdle

SkipSpecInit ==
    /\ BufferIdle /\ SkipInit /\ DatasetIdle /\ AtariIdle /\ PreprocessIdle /\ ValidateIdle

DatasetSpecInit ==
    /\ BufferIdle /\ SkipIdle /\ DatasetInit /\ AtariIdle /\ PreprocessIdle /\ ValidateIdle

AtariSpecInit ==
    /\ BufferIdle /\ SkipIdle /\ DatasetIdle /\ AtariInit /\ PreprocessIdle /\ ValidateIdle

PreprocessSpecInit ==
    /\ BufferIdle /\ SkipIdle /\ DatasetIdle /\ AtariIdle /\ PreprocessInit /\ ValidateIdle

ValidateSpecInit ==
    /\ BufferIdle /\ SkipIdle /\ DatasetIdle /\ AtariIdle /\ PreprocessIdle /\ ValidateInit

SpecBuffer == BufferSpecInit /\ [][BufferNext]_vars

SpecSkip == SkipSpecInit /\ [][SkipNext]_vars

SpecDataset == DatasetSpecInit /\ [][DatasetNext]_vars

SpecAtari == AtariSpecInit /\ [][AtariNext]_vars

SpecPreprocess == PreprocessSpecInit /\ [][PreprocessNext]_vars

SpecValidate == ValidateSpecInit /\ [][ValidateNext]_vars

-----------------------------------------------------------------------------
(* ReplayBuffer: the claims *)

\* C1: the buffer never holds more than capacity transitions, and after k
\* pushes it holds exactly the last min(k, capacity) pushed transitions in
\* insertion order
C1_BoundedFifo ==
    /\ Len(memory) <= capacity
    /\ memory = LastN(pushed, Min(Len(pushed), capacity))

\* a full buffer of capacity >= 2 has just evicted its oldest entry
C1_Witness ==
    /\ lastOp = "push"
    /\ capacity >= 2
    /\ Len(pushed) > capacity
    /\ Len(memory) = capacity
    /\ memory[1] # pushed[1]

\* C2 as stated: sample(n) with 0 <= n <= len returns n elements, no two of
\* them equal, each one stored in the buffer
C2_SampleValuesDistinct ==
    (lastOp = "sample" /\ 0 <= sampleArg /\ sampleArg <= Len(memory)) =>
        /\ sampleOut.ok
        /\ Len(sampleOut.val) = sampleArg
        /\ \A p, q \in 1..Len(sampleOut.val) :
              p # q => sampleOut.val[p] # sampleOut.val[q]
        /\ \A p \in 1..Len(sampleOut.val) :
              \E m \in 1..Len(memory) : sampleOut.val[p] = memory[m]

\* C2 as amended: sample(n) with 0 <= n <= len returns n elements taken from
\* n pairwise distinct positions of the buffer, so no stored entry is returned
\* twice, and the elements are pairwise different whenever the stored
\* transitions are
C2_SamplePositionsDistinct ==
    (lastOp = "sample" /\ 0 <= sampleArg /\ sampleArg <= Len(memory)) =>
        /\ sampleOut.ok
        /\ Len(sampleOut.val) = sampleArg
        /\ DOMAIN samplePos = 1..sampleArg
        /\ \A p \in 1..sampleArg :
              /\ samplePos[p] \in 1..Len(memory)
              /\ sampleOut.val[p] = memory[samplePos[p]]
        /\ \A p, q \in 1..sampleArg : p # q => samplePos[p] # samplePos[q]
        /\ (\A m, n \in 1..Len(memory) : m # n => memory[m] # memory[n]) =>
              \A p, q \in 1..sampleArg : p # q => sampleOut.val[p] # sampleOut.val[q]

\* a sample of the whole of a buffer that holds two entries
C2_Witness ==
    /\ lastOp = "sample"
    /\ Len(memory) = 2
    /\ sampleArg = 2
    /\ sampleOut.ok
    /\ Len(sampleOut.val) = 2

\* C3: sample(n) with n > len fails instead of returning a result; sample and
\* len leave the contents and their order unchanged, so only push changes the
\* buffer
C3_SampleFailsAndOnlyPushMutates ==
    [][ /\ (lastOp' = "sample" /\ sampleArg' > Len(memory)) => ~sampleOut'.ok
        /\ lastOp' \in {"sample", "len"} => memory' = memory
        /\ memory' # memory => lastOp' = "push" ]_vars

\* a sample of more than a non-empty buffer holds has failed
C3_Witness ==
    /\ lastOp = "sample"
    /\ Len(memory) >= 1
    /\ sampleArg > Len(memory)
    /\ ~sampleOut.ok
    /\ memory = LastN(pushed, Len(memory))

-----------------------------------------------------------------------------
(* SkipFrameWrapper: the claims *)

\* the rewards of the inner steps made so far in this step() call
RECURSIVE LogReward(_)
LogReward(log) == IF log = <<>> THEN 0 ELSE Head(log).reward + LogReward(Tail(log))

\* C4: one step(action) call steps the wrapped environment with that action
\* min(skip, k) times, k the first inner step that reports termination; no
\* inner step follows a terminating one; it returns the observation of the
\* last inner step, the sum of the rewards of the inner steps made, and done
\* exactly when the last inner step reported termination
C4_SkipStep ==
    /\ \A p \in 1..(Len(sfLog) - 1) : ~sfLog[p].done
    /\ Len(sfLog) <= skip
    /\ \A p \in 1..Len(sfLog) : sfLog[p].action = sfAction
    /\ sfPc = "returned" =>
          LET n == Len(sfLog)
          IN  /\ n >= 1
              /\ n < skip => sfLog[n].done
              /\ sfRet = <<sfLog[n].obs, LogReward(sfLog), sfLog[n].done>>

\* skip = 4 and termination on the 2nd inner step: the reward of exactly two
\* steps is returned, with done = True
C4_Witness ==
    /\ sfPc = "returned"
    /\ skip = 4
    /\ Len(sfLog) = 2
    /\ sfLog[1].reward = 1 /\ sfLog[2].reward = 1
    /\ sfLog[1].obs # sfLog[2].obs
    /\ sfRet = <<sfLog[2].obs, 2, TRUE>>

-----------------------------------------------------------------------------
(* TrajectorySamples: the claims *)

AllLengthsEqual ==
    \A a, b \in DOMAIN dsArgs : Len(dsArgs[a]) = Len(dsArgs[b])

\* C6: construction fails when one of the five sequences has a length of its
\* own and succeeds otherwise; then len() is the common length and
\* dataset[index], 0 <= index < len, is the five values at that position in
\* the order old_probs, observations_arr, advantages, vtarget_arr, actions_arr
C6_Dataset ==
    /\ dsState = "failed" => ~AllLengthsEqual
    /\ dsState = "ok" => AllLengthsEqual
    /\ dsOp = "len" =>
          /\ dsOut.ok
          /\ \A a \in DOMAIN dsArgs : dsOut.val = <<Len(dsArgs[a])>>
    /\ (dsOp = "getitem" /\ dsIndex < Len(dsArgs.old_probs)) =>
          /\ dsOut.ok
          /\ Len(dsOut.val) = 5
          /\ \A a \in 1..5 : dsOut.val[a] = dsArgs[DatasetKeys[a]][dsIndex + 1]

\* an item has been read from a dataset of two rows
C6_Witness ==
    /\ dsOp = "getitem"
    /\ Len(dsArgs.old_probs) = 2
    /\ dsIndex = 1
    /\ dsOut.ok
    /\ dsOut.val[2] = <<"observations_arr", 2>>

-----------------------------------------------------------------------------
(* AtariGameEnv: the claims *)

\* the observation is the materialized tensor of the stacked frames, and the
\* other elements are the wrapped environment's, each in its place
ObservationMaterialized ==
    /\ Len(agOut) = Len(agInner)
    /\ agOut[1] = TorchTensor(agInner[1].frames)
    /\ \A p \in 2..Len(agInner) : agOut[p] = agInner[p]

\* C7 as stated: reset and step both return a tuple (observation, reward,
\* done, ...) with the observation materialized and the rest passed through
C7_ResetAndStepForm ==
    agOp \in {"reset", "step"} =>
        /\ Len(agOut) >= 3
        /\ agOut[2] \in Rewards
        /\ agOut[3] \in BOOLEAN
        /\ ObservationMaterialized

\* C7 as amended: step returns a tuple (observation, reward, done, ...) and
\* reset returns the wrapped environment's reset tuple, (observation, info);
\* in both the observation is the materialized tensor of the stacked frames
\* and every other element is passed through unchanged in its position
C7_PassThrough ==
    /\ agOp = "step" =>
          /\ Len(agOut) >= 3
          /\ agOut[2] \in Rewards
          /\ agOut[3] \in BOOLEAN
          /\ ObservationMaterialized
    /\ agOp = "reset" =>
          /\ Len(agOut) = 2
          /\ agOut[2] \in Infos
          /\ ObservationMaterialized

\* a reset has returned its two-element tuple
C7_Witness ==
    /\ agOp = "reset"
    /\ agOut = <<TorchTensor(<<"f1", "f2">>), "info1">>

-----------------------------------------------------------------------------
(* preprocess_observation: the claims *)

\* C8: in mode 'resize', for every height x width x 3 frame and every
\* target size (h, w) of positive integers, the result has shape (1, h, w)
C8_ResizeShape ==
    (ppCalled /\ ppMode = "resize") =>
        ppOut.shape = <<1, ppNewSize[1], ppNewSize[2]>>

-----------------------------------------------------------------------------
(* validate: the claims *)

\* the number of episodes validate was asked for
EpisodesAsked == IF vArgs.render THEN 1 ELSE vArgs.nepisodes

\* C5: validate runs exactly nepisodes episodes (1 when rendering) and
\* records one steps entry and one reward entry per episode, in episode
\* order: the steps taken up to and including the first step that reports
\* done (or the step cap), and the sum of the rewards of those steps; step
\* counter, reward accumulator and done flag start fresh in every episode
C5_EpisodeRecords ==
    /\ vPc = "done" => Len(episodes) = EpisodesAsked
    /\ vPc # "start" =>
          /\ Len(steps_alive) = Len(episodes)
          /\ Len(reward_arr) = Len(episodes)
          /\ \A k \in 1..Len(episodes) :
                /\ episodes[k].seed = SEED + (k - 1)
                /\ steps_alive[k] = episodes[k].steps
                /\ reward_arr[k] = episodes[k].paid
                /\ IF episodes[k].firstDone # 0
                   THEN episodes[k].steps = episodes[k].firstDone
                   ELSE episodes[k].steps = StepCap
    /\ vPc = "while" =>
          /\ step = env.t
          /\ ep_total_reward = env.paid
          /\ done = env.done

\* an environment that ends every episode after exactly 3 steps, paying the
\* same in both of nepisodes = 2 episodes: steps [3, 3], twice the reward
C5_Witness ==
    /\ vPc = "done"
    /\ ~vArgs.render
    /\ vArgs.nepisodes = 2
    /\ steps_alive = <<3, 3>>
    /\ reward_arr[1] = 3
    /\ SumSeq(reward_arr) = 2 * reward_arr[1]

\* how many steps validate can still take: the episodes left, each at most
\* the step cap and its start and end, and the final step
Rank ==
    LET perEpisode == StepCap + 2
    IN  CASE vPc = "start" -> EpisodesAsked * perEpisode + 2
          [] vPc = "for"   -> (nepisodes - i) * perEpisode + 1
          [] vPc = "while" -> (nepisodes - i - 1) * perEpisode + 2 + (StepCap - step)
          [] OTHER         -> 0

\* C9: every episode terminates: the loop is left as soon as a step reports
\* done or the step count reaches the cap, so no episode takes more than
\* 50,000 steps (an environment that never reports done is stepped exactly
\* 50,000 times), and validate finishes after its last episode: until it has
\* finished it can always take a step, and every step it takes lowers a rank
\* that is never negative
C9_Terminates ==
    /\ [](step <= StepCap /\ env.t <= StepCap)
    /\ [](\A k \in 1..Len(episodes) :
             /\ episodes[k].steps <= StepCap
             /\ vArgs.env = "endless" => episodes[k].steps = StepCap)
    /\ [][(vPc = "while" /\ (done \/ step = StepCap)) => vPc' = "for"]_vars
    /\ [](Rank >= 0)
    /\ [][Rank' < Rank]_vars
    /\ [](vPc = "done" \/ ENABLED ValidateNext)

\* an environment that never reports done has been stepped 50,000 times in
\* each of two episodes, and validate has finished
C9_Witness ==
    /\ vPc = "done"
    /\ vArgs.env = "endless"
    /\ steps_alive = <<StepCap, StepCap>>
    /\ episodes[2].steps = StepCap

\* C10: episode i resets its environment with seed SEED + i before any step;
\* the first get_action call of every episode gets the preprocessed reset
\* observation and a recurrent state of None; every later call gets the
\* preprocessed observation of the preceding environment step and the
\* recurrent state the preceding get_action call returned
C10_SeedsAndCallArguments ==
    /\ [](vPc = "while" =>
             /\ env.seed = SEED + i
             /\ env.obs = EnvFrame(SEED + i, env.t)
             /\ env.t = step)
    /\ [][calls'.n # calls.n =>
             /\ vPc = "while"
             /\ calls'.n = calls.n + 1
             /\ calls'.obs = Observe(env.obs, vArgs.mode)
             /\ calls'.obs.src = <<SEED + i, step>>
             /\ calls'.state = IF step = 0 THEN NoneState ELSE calls.ret
             /\ calls'.ret = ModelState(calls'.n)]_vars

\* the first get_action call of the second episode has been made: it got the
\* reset observation of the environment seeded SEED + 1 and None, though the
\* model returned a state in the first episode
C10_Witness ==
    /\ vPc = "while"
    /\ i = 1
    /\ step = 1
    /\ calls.n >= 2
    /\ calls.state = NoneState
    /\ calls.obs.src = <<SEED + 1, 0>>

=============================================================================
